---- MODULE Spec2Model ----
(***************************************************************************)
(* Benchmark harness of python_course_lab: three execution strategies      *)
(* (thread pool, process pool, asyncio + semaphore) driven by the          *)
(* run_repeated* trial runners of main_async, for the I/O workload         *)
(* (python_bench/io_bound.py, loopback TCP echo) and the CPU workload      *)
(* (cpu_bound.py).                                                         *)
(*                                                                         *)
(* One behaviour is one run of main_async of one of the two programs.      *)
(* The command line (tasks, concurrency, repeats, warmup, payload size)    *)
(* is drawn in Init.  The remote end of a connection is the repository's   *)
(* echo handler; the environment may make one kind of peer misbehaviour    *)
(* (inject) happen on any connection: a corrupted echo, a connection       *)
(* closed early, or a peer that never answers.                             *)
(***************************************************************************)
EXTENDS Integers, Sequences, FiniteSets, TLC

\* ---- bounds of the model ------------------------------------------------
MaxTasks == 2
MaxConcurrency == 2
MaxRepeats == 2
MaxWarmup == 1
MaxPayload == 2
MaxClock == 1
\* bytes sent by one invocation (tasks * payload size) and task executions of
\* one trial runner call (tasks * (warmup + repeats)) of the command lines drawn
MaxBytes == 4
MaxTaskRuns == 4
\* largest --concurrency of the command lines drawn to size the pools
MaxPoolConcurrency == 65
\* largest --cpu-units of the calls of cpu_work followed step by step
MaxUnits == 16

\* ---- program constants --------------------------------------------------
\* io_bench_processes: proc_workers = min(concurrency, 64)
ProcCap == 64

Strategies == <<"threads", "processes", "asyncio">>
Benches == {"io", "cpu"}
FaultKinds == {"none", "corrupt", "close", "hang"}
Slots == 1..MaxTasks

VARIABLES
    bench,        \* which program runs: "io" (io_bound.py) or "cpu" (cpu_bound.py)
    tasks,        \* args.tasks
    concurrency,  \* args.concurrency
    repeats,      \* args.repeats
    warmup,       \* args.warmup
    payload,      \* b"x" * args.payload_size, as a sequence of bytes
    inject,       \* the kind of peer misbehaviour the environment may produce
    hpc,          \* main_async: "run", "done", "failed", "exited"
    server,       \* echo server: "none", "up", "closed"
    strat,        \* index into Strategies of the run_repeated* call in progress
    iter,         \* invocations completed by that run_repeated* call
    clock,        \* last reading of time.perf_counter()
    t0,           \* t0 of the measured trial in progress
    runs,         \* runs list of that run_repeated* call
    results,      \* io_results / cpu_results
    calls,        \* per strategy: invocations started by its run_repeated* call
    timed,        \* per strategy: invocations started with t0 = now()
    ipc,          \* strategy invocation: "idle", "wait", "shutdown", "returned", "raised"
    nextf,        \* index of the future whose result() the driver waits for
    exc,          \* an exception is pending in the invocation
    alive,        \* worker threads / processes of the pool that exist
    sem,          \* value of the asyncio.Semaphore
    tpc,          \* per task: position of the task
    conn,         \* per task: client socket "none", "open", "closed"
    recvd,        \* per task: bytes received so far by the client
    c2s,          \* per task: bytes in flight client -> server
    s2c,          \* per task: bytes in flight server -> client
    hst,          \* per task: server side of the connection: "none","read","drain","closed"
    fault,        \* per task: misbehaviour of the peer of this connection
    hrd,          \* per task: bytes the handler of the connection has read
    hwr,          \* per task: bytes the handler of the connection has written
    wunits,       \* cpu_work: its argument units
    wi,           \* cpu_work: iterations of the loop made
    wacc,         \* cpu_work: acc, as <<high 16 bits, low 16 bits>>
    wpc           \* cpu_work: "idle", "loop", "done"

cfgvars == <<bench, tasks, concurrency, repeats, warmup, payload, inject>>
harnessvars == <<hpc, server, strat, iter, clock, t0, runs, results, calls, timed>>
invvars == <<ipc, nextf, exc, alive, sem>>
taskvars == <<tpc, conn, recvd>>
netvars == <<c2s, s2c, hst, fault, hrd, hwr>>
workvars == <<wunits, wi, wacc, wpc>>
vars == <<cfgvars, harnessvars, invvars, taskvars, netvars, workvars>>

\* ---- helpers --------------------------------------------------------------
Min(a, b) == IF a < b THEN a ELSE b

\* b"x" * n
Bytes(n) == [j \in 1..n |-> "x"]

Prefix(s, n) == SubSeq(s, 1, n)
Suffix(s, n) == SubSeq(s, n + 1, Len(s))

Strategy == Strategies[strat]

\* positions of a task
Waiting == {"queued"}
InFlight == {"connect", "send", "recv", "closing", "closing_err", "work"}
Finished == {"ok", "failed", "cancelled"}

NoTasks == [i \in Slots |-> "none"]


Blocking == Strategy \in {"threads", "processes"}

\* the tasks a worker is executing / that hold a semaphore slot
Running == {i \in Slots : tpc[i] \in InFlight}
Queued == {i \in Slots : tpc[i] \in Waiting}

\* the next item of the FIFO work queue (pool) or the first waiter (gate)
First(i) == i \in Queued /\ \A j \in Queued : i <= j

\* a wall clock that can be set back between two readings
NowWallClock(c) == (c - 1)..Min(c + 1, MaxClock)

\* time.perf_counter(): the readings a call can return after reading c
Now(c) == c..Min(c + 1, MaxClock)

\* max_workers of the pool an invocation creates
PoolSize ==
    IF bench = "io" /\ Strategy = "processes"
    THEN Min(concurrency, ProcCap)
    ELSE concurrency

\* ---- initial state: main_async entered, echo server started --------------
Entered ==
    /\ hpc = "run"
    /\ server = (IF bench = "io" THEN "up" ELSE "none")
    /\ strat = 1
    /\ iter = 0
    /\ clock = 0
    /\ t0 = 0
    /\ runs = <<>>
    /\ results = <<>>
    /\ ipc = "idle"
    /\ nextf = 1
    /\ exc = FALSE
    /\ alive = 0
    /\ sem = 0
    /\ tpc = NoTasks
    /\ conn = [i \in Slots |-> "none"]
    /\ recvd = [i \in Slots |-> <<>>]
    /\ c2s = [i \in Slots |-> <<>>]
    /\ s2c = [i \in Slots |-> <<>>]
    /\ hst = [i \in Slots |-> "none"]
    /\ fault = [i \in Slots |-> "none"]
    /\ hrd = [i \in Slots |-> <<>>]
    /\ hwr = [i \in Slots |-> <<>>]
    /\ calls = [s \in 1..Len(Strategies) |-> 0]
    /\ timed = [s \in 1..Len(Strategies) |-> 0]
    /\ wunits = 0
    /\ wi = 0
    /\ wacc = <<0, 0>>
    /\ wpc = "idle"

\* the command lines drawn
Init ==
    /\ bench \in Benches
    /\ tasks \in 1..MaxTasks
    /\ concurrency \in 1..MaxConcurrency
    /\ repeats \in 1..MaxRepeats
    /\ warmup \in 0..MaxWarmup
    /\ payload \in (IF bench = "io" THEN {Bytes(n) : n \in 0..MaxPayload} ELSE {<<>>})
    /\ inject \in (IF bench = "io" THEN FaultKinds ELSE {"none"})
    /\ tasks * Len(payload) <= MaxBytes
    /\ tasks * (warmup + repeats) <= MaxTaskRuns
    /\ Entered

\* ---- run_repeated / run_repeated_async / run_repeated_blocking ------------
\* a trial runner that times its warmup trials too
MeasuredAlways(n) == TRUE

\* the n+1-th invocation of a trial runner call is in the second loop, the
\* measured one, once the warmup loop has made its `warmup` invocations
Measured(n) == n >= warmup

\* Loop head of the trial runner: t0 = now() when the trial is measured, then
\* the strategy is invoked: the pool (or the semaphore) is created and all
\* tasks are submitted (or all coroutines handed to gather).  The connection
\* records are per task of the invocation in progress: the server side of a
\* connection of the previous invocation, which can only still have to see
\* the end of its stream, is no longer followed.
StartTrial ==
    /\ hpc = "run"
    /\ ipc = "idle"
    /\ iter < warmup + repeats
    /\ IF Measured(iter)
       THEN \E r \in Now(clock) : clock' = r /\ t0' = r
       ELSE UNCHANGED <<clock, t0>>
    /\ calls' = [calls EXCEPT ![strat] = @ + 1]
    /\ timed' = [timed EXCEPT ![strat] = IF Measured(iter) THEN @ + 1 ELSE @]
    /\ ipc' = "wait"
    /\ nextf' = 1
    /\ exc' = FALSE
    /\ alive' = (IF Blocking THEN PoolSize ELSE 0)
    /\ sem' = (IF Blocking THEN 0 ELSE concurrency)
    /\ tpc' = [i \in Slots |-> IF i <= tasks THEN "queued" ELSE "none"]
    /\ conn' = [i \in Slots |-> "none"]
    /\ recvd' = [i \in Slots |-> <<>>]
    /\ c2s' = [i \in Slots |-> <<>>]
    /\ s2c' = [i \in Slots |-> <<>>]
    /\ hst' = [i \in Slots |-> "none"]
    /\ fault' = [i \in Slots |-> "none"]
    /\ hrd' = [i \in Slots |-> <<>>]
    /\ hwr' = [i \in Slots |-> <<>>]
    /\ UNCHANGED <<cfgvars, workvars, hpc, server, strat, iter, runs, results>>

\* The invocation returned: runs.append(now() - t0) when measured; after the
\* last trial the Result is returned and appended to the results list, and
\* after the last strategy the table is printed and the finally clause of
\* main_async closes the server.
TrialEnd ==
    /\ hpc = "run"
    /\ ipc = "returned"
    /\ \E r \in Now(clock) :
        LET measured == Measured(iter)
            runs1 == IF measured THEN Append(runs, r - t0) ELSE runs
            last == iter + 1 = warmup + repeats
        IN  /\ clock' = (IF measured THEN r ELSE clock)
            /\ iter' = (IF last THEN 0 ELSE iter + 1)
            /\ runs' = (IF last THEN <<>> ELSE runs1)
            /\ results' = (IF last
                           THEN Append(results, [name |-> Strategy, runs |-> runs1])
                           ELSE results)
            /\ strat' = (IF last /\ strat < Len(Strategies) THEN strat + 1 ELSE strat)
            /\ hpc' = (IF last /\ strat = Len(Strategies) THEN "done" ELSE "run")
            /\ server' = (IF last /\ strat = Len(Strategies) /\ bench = "io"
                          THEN "closed" ELSE server)
    /\ ipc' = "idle"
    /\ UNCHANGED <<cfgvars, workvars, t0, calls, timed, nextf, exc, alive, sem,
                   taskvars, netvars>>

\* a trial runner that swallows the exception and returns the durations
\* recorded so far
PropagatePartial ==
    /\ hpc = "run"
    /\ ipc = "raised"
    /\ results' = Append(results, [name |-> Strategy, runs |-> runs])
    /\ runs' = <<>>
    /\ iter' = 0
    /\ ipc' = "idle"
    /\ strat' = (IF strat < Len(Strategies) THEN strat + 1 ELSE strat)
    /\ hpc' = (IF strat = Len(Strategies) THEN "done" ELSE "run")
    /\ server' = (IF strat = Len(Strategies) /\ bench = "io" THEN "closed" ELSE server)
    /\ UNCHANGED <<cfgvars, workvars, clock, t0, calls, timed, nextf, exc, alive, sem,
                   taskvars, netvars>>

\* The invocation raised: the exception leaves run_repeated* and main_async;
\* the finally clause of main_async (io) closes the server.
Propagate ==
    /\ hpc = "run"
    /\ ipc = "raised"
    /\ hpc' = "failed"
    /\ server' = (IF bench = "io" THEN "closed" ELSE server)
    /\ UNCHANGED <<cfgvars, workvars, strat, iter, clock, t0, runs, results,
                   calls, timed, invvars, taskvars, netvars>>

\* asyncio.run() returns: every task still pending on the loop is cancelled
\* (its finally clauses run: sockets are closed, semaphore slots released,
\* handlers end) and the loop is closed.
LoopClose ==
    /\ hpc \in {"done", "failed"}
    /\ hpc' = "exited"
    /\ tpc' = [i \in Slots |-> IF tpc[i] \in Waiting \cup InFlight
                               THEN "cancelled" ELSE tpc[i]]
    /\ conn' = [i \in Slots |-> IF conn[i] = "open" THEN "closed" ELSE conn[i]]
    /\ hst' = [i \in Slots |-> IF hst[i] \in {"read", "drain"} THEN "closed" ELSE hst[i]]
    /\ c2s' = [i \in Slots |-> <<>>]
    /\ s2c' = [i \in Slots |-> <<>>]
    /\ sem' = (IF Blocking THEN sem ELSE sem + Cardinality(Running))
    /\ UNCHANGED <<cfgvars, workvars, server, strat, iter, clock, t0, runs, results,
                   calls, timed, ipc, nextf, exc, alive, recvd, fault, hrd, hwr>>


\* ---- the echo client: io_bench_threads.one, io_process_worker, ------------
\* ---- io_client_once -------------------------------------------------------
\* a comparison of the lengths alone
MatchesLength(data, p) == Len(data) = Len(p)

\* recvd != payload / data != payload
Matches(data, p) == data = p

\* a receive loop that reads at least once (do ... while)
NeedsMoreOrFirst(got, p) == Len(got) < Len(p) \/ got = <<>>

\* while len(recvd) < len(payload) / readexactly(n) with n bytes to come
NeedsMore(got, p) == Len(got) < Len(p)

\* a socket closed on the success path only
SocketLeak(good) == IF good THEN "closed" ELSE "open"

\* the socket when the client leaves its with block / its finally clause
SocketOnExit(good) == "closed"

\* where a client that leaves the exchange goes: a pool task is finished; a
\* coroutine still awaits writer.wait_closed() inside `async with sem`
ExitPc(good) ==
    IF Blocking
    THEN (IF good THEN "ok" ELSE "failed")
    ELSE (IF good THEN "closing" ELSE "closing_err")

\* ThreadPoolExecutor / ProcessPoolExecutor worker: an idle worker takes the
\* next work item from the queue
Dispatch(i) ==
    /\ hpc = "run"
    /\ Blocking
    /\ ipc \in {"wait", "shutdown"}
    /\ First(i)
    /\ Cardinality(Running) < alive
    /\ tpc' = [tpc EXCEPT ![i] = IF bench = "io" THEN "connect" ELSE "work"]
    /\ UNCHANGED <<cfgvars, workvars, harnessvars, invvars, conn, recvd, netvars>>

\* a gate that never reports itself locked
LockedNever(v) == FALSE

\* Semaphore.locked()
Locked(v) == v = 0

\* io_bench_asyncio.one: `async with sem` entered
Acquire(i) ==
    /\ hpc \in {"run", "failed"}
    /\ ~Blocking
    /\ bench = "io"
    /\ First(i)
    /\ ~Locked(sem)
    /\ sem' = sem - 1
    /\ tpc' = [tpc EXCEPT ![i] = "connect"]
    /\ UNCHANGED <<cfgvars, workvars, harnessvars, ipc, nextf, exc, alive, conn, recvd, netvars>>

\* socket.create_connection / asyncio.open_connection against the listening
\* server: the connection is accepted and its handler waits in reader.read
Connect(i) ==
    /\ hpc \in {"run", "failed"}
    /\ tpc[i] = "connect"
    /\ server = "up"
    /\ tpc' = [tpc EXCEPT ![i] = "send"]
    /\ conn' = [conn EXCEPT ![i] = "open"]
    /\ hst' = [hst EXCEPT ![i] = "read"]
    /\ \E f \in {"none", inject} : fault' = [fault EXCEPT ![i] = f]
    /\ UNCHANGED <<cfgvars, workvars, harnessvars, invvars, recvd, c2s, s2c, hrd, hwr>>

\* asyncio.open_connection after server.close(): connection refused; the
\* exception leaves `async with sem`, which releases the slot
ConnectRefused(i) ==
    /\ hpc \in {"run", "failed"}
    /\ tpc[i] = "connect"
    /\ server # "up"
    /\ tpc' = [tpc EXCEPT ![i] = "failed"]
    /\ sem' = (IF Blocking THEN sem ELSE sem + 1)
    /\ UNCHANGED <<cfgvars, workvars, harnessvars, ipc, nextf, exc, alive, conn, recvd, netvars>>

\* s.sendall(payload) / writer.write(payload); await writer.drain().  With an
\* empty payload the receive loop is not entered (readexactly(0) returns at
\* once) and the comparison is made right away.
Send(i) ==
    /\ hpc \in {"run", "failed"}
    /\ tpc[i] = "send"
    /\ c2s' = [c2s EXCEPT ![i] = c2s[i] \o payload]
    /\ IF NeedsMore(recvd[i], payload)
       THEN /\ tpc' = [tpc EXCEPT ![i] = "recv"]
            /\ UNCHANGED conn
       ELSE /\ tpc' = [tpc EXCEPT ![i] = ExitPc(Matches(recvd[i], payload))]
            /\ conn' = [conn EXCEPT ![i] = SocketOnExit(Matches(recvd[i], payload))]
    /\ UNCHANGED <<cfgvars, workvars, harnessvars, invvars, recvd, s2c, hst, fault,
                   hrd, hwr>>

\* chunk = s.recv(len(payload) - len(recvd)) returns data; recvd += chunk;
\* when the loop ends the bytes are compared with the payload
\* (reader.readexactly(len(payload)) accumulates the same way)
Recv(i) ==
    /\ hpc \in {"run", "failed"}
    /\ tpc[i] = "recv"
    /\ s2c[i] # <<>>
    /\ \E n \in 1..Min(Len(s2c[i]), Len(payload) - Len(recvd[i])) :
        LET got == recvd[i] \o Prefix(s2c[i], n)
        IN  /\ recvd' = [recvd EXCEPT ![i] = got]
            /\ s2c' = [s2c EXCEPT ![i] = Suffix(s2c[i], n)]
            /\ IF NeedsMore(got, payload)
               THEN UNCHANGED <<tpc, conn>>
               ELSE /\ tpc' = [tpc EXCEPT ![i] = ExitPc(Matches(got, payload))]
                    /\ conn' = [conn EXCEPT ![i] = SocketOnExit(Matches(got, payload))]
    /\ UNCHANGED <<cfgvars, workvars, harnessvars, invvars, c2s, hst, fault, hrd, hwr>>

\* s.recv returns b"" (RuntimeError "Socket closed early") / readexactly
\* raises IncompleteReadError: the peer closed before the full echo
RecvEOF(i) ==
    /\ hpc \in {"run", "failed"}
    /\ tpc[i] = "recv"
    /\ s2c[i] = <<>>
    /\ hst[i] = "closed"
    /\ tpc' = [tpc EXCEPT ![i] = ExitPc(FALSE)]
    /\ conn' = [conn EXCEPT ![i] = SocketOnExit(FALSE)]
    /\ UNCHANGED <<cfgvars, workvars, harnessvars, invvars, recvd, netvars>>

\* the timeout a client socket was created with: create_connection(...,
\* timeout=20.0) in the pool clients, none in asyncio.open_connection
HasTimeout == Blocking

\* s.recv raises socket.timeout: nothing arrived within the timeout, which
\* happens when the peer never answers
Timeout(i) ==
    /\ hpc \in {"run", "failed"}
    /\ tpc[i] = "recv"
    /\ HasTimeout
    /\ s2c[i] = <<>>
    /\ hst[i] # "closed"
    /\ fault[i] = "hang"
    /\ tpc' = [tpc EXCEPT ![i] = ExitPc(FALSE)]
    /\ conn' = [conn EXCEPT ![i] = SocketOnExit(FALSE)]
    /\ UNCHANGED <<cfgvars, workvars, harnessvars, invvars, recvd, netvars>>

\* io_client_once: await writer.wait_closed() returns, the coroutine leaves
\* `async with sem` (release) and ends with its result or its exception
Closed(i) ==
    /\ hpc \in {"run", "failed"}
    /\ tpc[i] \in {"closing", "closing_err"}
    /\ tpc' = [tpc EXCEPT ![i] = IF tpc[i] = "closing" THEN "ok" ELSE "failed"]
    /\ sem' = sem + 1
    /\ UNCHANGED <<cfgvars, workvars, harnessvars, ipc, nextf, exc, alive, conn, recvd, netvars>>

\* ---- the CPU workload ------------------------------------------------------
\* a pool worker runs cpu_work(units) to its end
Work(i) ==
    /\ hpc = "run"
    /\ tpc[i] = "work"
    /\ tpc' = [tpc EXCEPT ![i] = "ok"]
    /\ UNCHANGED <<cfgvars, workvars, harnessvars, invvars, conn, recvd, netvars>>

\* a compute coroutine that suspends inside `async with sem`
CpuOneYield(i) ==
    /\ hpc = "run"
    /\ ~Blocking
    /\ bench = "cpu"
    /\ First(i)
    /\ ~Locked(sem)
    /\ sem' = sem - 1
    /\ tpc' = [tpc EXCEPT ![i] = "work"]
    /\ UNCHANGED <<cfgvars, workvars, harnessvars, ipc, nextf, exc, alive, conn, recvd, netvars>>

\* cpu_bench_asyncio.one: acquire, cpu_work(units), release, with no await
\* in between
CpuOne(i) ==
    /\ hpc = "run"
    /\ ~Blocking
    /\ bench = "cpu"
    /\ First(i)
    /\ ~Locked(sem)
    /\ tpc' = [tpc EXCEPT ![i] = "ok"]
    /\ UNCHANGED <<cfgvars, workvars, harnessvars, invvars, conn, recvd, netvars>>


\* ---- start_echo_server.handle ----------------------------------------------
\* an event loop held by a blocking trial run on the loop's own thread
LoopBlocked == hpc # "exited" /\ ~(Blocking /\ ipc \in {"wait", "shutdown"})

\* the event loop that runs the handlers: a blocking trial runs on a helper
\* thread (await asyncio.to_thread(fn)), so the loop is free for the handlers
\* at all times until asyncio.run returns
LoopRuns == hpc # "exited"

\* a handler that writes what it read twice
EchoTwice(data) == data \o data

\* writer.write(data): the bytes written for the bytes read
Echo(data) == data

\* data = await reader.read(1024) returns data; writer.write(data)
HandleRead(i) ==
    /\ LoopRuns
    /\ hst[i] = "read"
    /\ fault[i] = "none"
    /\ c2s[i] # <<>>
    /\ \E n \in 1..Len(c2s[i]) :
        /\ c2s' = [c2s EXCEPT ![i] = Suffix(c2s[i], n)]
        /\ hrd' = [hrd EXCEPT ![i] = hrd[i] \o Prefix(c2s[i], n)]
        /\ s2c' = [s2c EXCEPT ![i] = s2c[i] \o Echo(Prefix(c2s[i], n))]
        /\ hwr' = [hwr EXCEPT ![i] = hwr[i] \o Echo(Prefix(c2s[i], n))]
    /\ hst' = [hst EXCEPT ![i] = "drain"]
    /\ UNCHANGED <<cfgvars, workvars, harnessvars, invvars, taskvars, fault>>

\* await writer.drain() returns; back to reader.read
HandleDrain(i) ==
    /\ LoopRuns
    /\ hst[i] = "drain"
    /\ hst' = [hst EXCEPT ![i] = "read"]
    /\ UNCHANGED <<cfgvars, workvars, harnessvars, invvars, taskvars, c2s, s2c, fault,
                   hrd, hwr>>

\* reader.read returns b"": the client closed; break, writer.close()
HandleEOF(i) ==
    /\ LoopRuns
    /\ hst[i] = "read"
    /\ c2s[i] = <<>>
    /\ conn[i] = "closed"
    /\ hst' = [hst EXCEPT ![i] = "closed"]
    /\ UNCHANGED <<cfgvars, workvars, harnessvars, invvars, taskvars, c2s, s2c, fault,
                   hrd, hwr>>

\* ---- a misbehaving peer (the failures the clients must report) ------------
\* a wrong byte in place of the first one
Corrupt(data) == <<"y">> \o Tail(data)

\* the peer answers with bytes that differ from the ones it was sent
PeerCorrupt(i) ==
    /\ LoopRuns
    /\ hst[i] = "read"
    /\ fault[i] = "corrupt"
    /\ c2s[i] # <<>>
    /\ \E n \in 1..Len(c2s[i]) :
        /\ c2s' = [c2s EXCEPT ![i] = Suffix(c2s[i], n)]
        /\ s2c' = [s2c EXCEPT ![i] = s2c[i] \o Corrupt(Prefix(c2s[i], n))]
    /\ UNCHANGED <<cfgvars, workvars, harnessvars, invvars, taskvars, hst, fault,
                   hrd, hwr>>

\* the peer closes the connection without echoing
PeerClose(i) ==
    /\ LoopRuns
    /\ hst[i] = "read"
    /\ fault[i] = "close"
    /\ hst' = [hst EXCEPT ![i] = "closed"]
    /\ UNCHANGED <<cfgvars, workvars, harnessvars, invvars, taskvars, c2s, s2c, fault,
                   hrd, hwr>>

\* ---- the driver side of an invocation ---------------------------------------
\* waiting for a future without asking for its result
RaisesNever(i) == FALSE

\* f.result() raises the exception of a failed task
Raises(i) == tpc[i] = "failed"

\* Executor.map's result iterator cancels, when it is left by an exception,
\* the futures that are still pending; submit()-ed futures are left alone
Cancellable == IF bench = "io" /\ Strategy = "processes" THEN Queued ELSE {}

\* io_bench_threads / cpu_bench_*: for f in futs: f.result();
\* io_bench_processes: sum(ex.map(...)).  The driver waits for the futures in
\* submission order; the first exception leaves the loop.
FutureResult ==
    /\ hpc = "run"
    /\ Blocking
    /\ ipc = "wait"
    /\ tpc[nextf] \in {"ok", "failed"}
    /\ IF Raises(nextf)
       THEN /\ exc' = TRUE
            /\ ipc' = "shutdown"
            /\ \E S \in SUBSET Cancellable :
                 tpc' = [i \in Slots |-> IF i \in S THEN "cancelled" ELSE tpc[i]]
            /\ UNCHANGED nextf
       ELSE /\ IF nextf = tasks
               THEN ipc' = "shutdown" /\ UNCHANGED nextf
               ELSE nextf' = nextf + 1 /\ UNCHANGED ipc
            /\ UNCHANGED <<exc, tpc>>
    /\ UNCHANGED <<cfgvars, workvars, harnessvars, alive, sem, conn, recvd, netvars>>

\* shutdown(wait=False): the with block is left without waiting
DrainedNoWait == TRUE

\* Executor.shutdown(wait=True): every work item has been run (or cancelled)
Drained == Queued = {} /\ Running = {}

\* a pool that is never joined
WorkersLeft == alive

\* workers left once the with block of the pool has been left
WorkersAfterShutdown == 0

\* __exit__ of the pool's with block: shutdown(wait=True) joins the workers,
\* then the call returns or the pending exception goes on
Shutdown ==
    /\ hpc = "run"
    /\ Blocking
    /\ ipc = "shutdown"
    /\ Drained
    /\ alive' = WorkersAfterShutdown
    /\ ipc' = (IF exc THEN "raised" ELSE "returned")
    /\ UNCHANGED <<cfgvars, workvars, harnessvars, nextf, exc, sem, taskvars, netvars>>

\* a wait that ends with the first coroutine that returns
GatheredFirst == \E i \in 1..tasks : tpc[i] = "ok"

\* the result list of gather is complete: every coroutine returned
Gathered == \A i \in 1..tasks : tpc[i] = "ok"

\* await asyncio.gather(*[one() ...]): every coroutine returned
GatherDone ==
    /\ hpc = "run"
    /\ ~Blocking
    /\ ipc = "wait"
    /\ Gathered
    /\ ipc' = "returned"
    /\ UNCHANGED <<cfgvars, workvars, harnessvars, nextf, exc, alive, sem, taskvars, netvars>>

\* await asyncio.gather(...) without return_exceptions: the first exception
\* of a coroutine is raised to the awaiting caller at once
GatherRaise ==
    /\ hpc = "run"
    /\ ~Blocking
    /\ ipc = "wait"
    /\ \E i \in 1..tasks : Raises(i)
    /\ exc' = TRUE
    /\ ipc' = "raised"
    /\ UNCHANGED <<cfgvars, workvars, harnessvars, nextf, alive, sem, taskvars, netvars>>

\* ---- the program ------------------------------------------------------------
Next ==
    \/ StartTrial
    \/ TrialEnd
    \/ Propagate
    \/ LoopClose
    \/ FutureResult
    \/ Shutdown
    \/ GatherDone
    \/ GatherRaise
    \/ \E i \in Slots : Dispatch(i)
    \/ \E i \in Slots : Acquire(i)
    \/ \E i \in Slots : Connect(i)
    \/ \E i \in Slots : ConnectRefused(i)
    \/ \E i \in Slots : Send(i)
    \/ \E i \in Slots : Recv(i)
    \/ \E i \in Slots : RecvEOF(i)
    \/ \E i \in Slots : Timeout(i)
    \/ \E i \in Slots : Closed(i)
    \/ \E i \in Slots : Work(i)
    \/ \E i \in Slots : CpuOne(i)
    \/ \E i \in Slots : HandleRead(i)
    \/ \E i \in Slots : HandleDrain(i)
    \/ \E i \in Slots : HandleEOF(i)
    \/ \E i \in Slots : PeerCorrupt(i)
    \/ \E i \in Slots : PeerClose(i)

Spec == Init /\ [][Next]_vars

\* every thread, process, coroutine and handler that can take a step
\* eventually takes it
FairSpec == Spec /\ WF_vars(Next)


\* ==== properties ================================================================

Batch == 1..tasks
Returned == ipc = "returned"
Raised == ipc = "raised"

\* C1: in the asyncio strategy (I/O and CPU workload) the number of tasks past
\* the admission gate and not yet complete never exceeds `concurrency`; a
\* task that finds the gate full stays queued.
C1_AdmissionGate ==
    ~Blocking => Cardinality(Running) <= concurrency

\* a task waits at the gate while `concurrency` tasks are in flight
C1_Witness ==
    /\ ~Blocking
    /\ Queued # {}
    /\ Cardinality(Running) = concurrency

\* C2 (as claimed): when io_bench_asyncio raises to its caller, no task of the
\* batch is in flight or waiting at the gate.
C2_RaiseAfterAllFinished ==
    (~Blocking /\ Raised) => (Queued = {} /\ Running = {})

\* C3: when a thread pool invocation returns or raises, every task of the
\* batch has completed, successfully or with its failure; none is queued or
\* running.
C3_ThreadsDrained ==
    (Strategy = "threads" /\ (Returned \/ Raised))
        => \A i \in Batch : tpc[i] \in {"ok", "failed"}

\* a thread pool invocation raised the failure of task 1 after task 2, which
\* was submitted with it, ran to its end
C3_Witness ==
    /\ Strategy = "threads"
    /\ Raised
    /\ tasks = 2
    /\ tpc[1] = "failed"
    /\ tpc[2] \in {"ok", "failed"}

\* C4: an invocation of any strategy that returns normally has no failed task.
C4_NoSilentPartialSuccess ==
    Returned => \A i \in Batch : tpc[i] # "failed"

\* a process pool invocation raised although its first task succeeded
C4_Witness ==
    /\ Strategy = "processes"
    /\ Raised
    /\ tpc[1] = "ok"
    /\ tpc[2] = "failed"

\* C5: every Result in the results list has exactly `repeats` durations, each
\* >= 0, and the runs list in progress has one entry per completed measured
\* trial and none for a warmup trial.
C5_RunsPerResult ==
    /\ \A k \in 1..Len(results) :
        /\ Len(results[k].runs) = repeats
        /\ \A j \in 1..Len(results[k].runs) : results[k].runs[j] >= 0
    /\ hpc = "run" => Len(runs) = (IF iter > warmup THEN iter - warmup ELSE 0)
    /\ \A j \in 1..Len(runs) : runs[j] >= 0

\* a Result was returned after one warmup and two measured trials
C5_Witness ==
    /\ Len(results) >= 1
    /\ warmup = 1
    /\ repeats = 2
    /\ \E j \in 1..2 : results[1].runs[j] > 0

\* C6: once an invocation has raised, the exception stays: no Result is
\* appended to the results list afterwards, the run never completes normally
\* and no further invocation is started.
C6_FailureAborts ==
    [][Raised => (ipc' = "raised" /\ results' = results /\ hpc' # "done")]_vars

\* the run failed in the measured phase with a duration already recorded
C6_Witness ==
    /\ hpc = "failed"
    /\ iter >= warmup
    /\ Len(runs) >= 1
    /\ Len(results) = strat - 1

\* C7: a client that ends its exchange with success received exactly the
\* payload; a client that received anything else ends with a failure.
C7_EchoRoundTrip ==
    \A i \in Slots : tpc[i] \in {"ok", "closing"} => recvd[i] = payload

\* a client received as many bytes as it sent, but other bytes, and failed
C7_Witness ==
    \E i \in Slots :
        /\ tpc[i] \in {"failed", "closing_err"}
        /\ Len(recvd[i]) = Len(payload)
        /\ Len(payload) >= 2
        /\ recvd[i] # payload

\* C8 (as claimed): in every strategy an echo task that waits for the echo of
\* a peer that never answers eventually ends with a failure.
C8_HungPeerTimesOut ==
    \A i \in Slots :
        (tpc[i] = "recv" /\ fault[i] = "hang") ~> (tpc[i] \in {"failed", "closing_err"})

\* C9: a task that has left its exchange (finished, or only waiting for
\* wait_closed) has no open connection, whatever the outcome.
C9_ConnectionClosed ==
    \A i \in Slots :
        tpc[i] \in Finished \cup {"closing", "closing_err"} => conn[i] # "open"

\* a client whose peer never answered timed out and its socket is closed
C9_Witness ==
    \E i \in Slots :
        /\ tpc[i] = "failed"
        /\ fault[i] = "hang"
        /\ conn[i] = "closed"

\* C10: the workers of a pool exist only inside the invocation that created
\* the pool: when it has returned or raised none is left and no work item is
\* running.
C10_PoolScoped ==
    /\ ipc \notin {"wait", "shutdown"} => alive = 0
    /\ (Blocking /\ (Returned \/ Raised)) => Running = {}

\* a process pool invocation raised, and its workers are gone
C10_Witness ==
    /\ Strategy = "processes"
    /\ Raised
    /\ alive = 0
    /\ \E i \in Batch : tpc[i] = "failed"


\* C11: the harness is sequential: whenever no invocation is in progress
\* (before a trial is started, and when one has returned) no task of any
\* invocation is queued or in flight and no pool worker exists, so a trial
\* starts only after the previous invocation and its teardown are complete,
\* within one strategy and from one strategy to the next.
C11_Sequential ==
    /\ ipc \in {"idle", "returned"} => (Queued = {} /\ Running = {} /\ alive = 0)
    /\ (Queued # {} \/ Running # {}) => ipc \in {"wait", "shutdown", "raised"}

\* the next strategy is about to start its first trial after the previous
\* strategy ran two tasks
C11_Witness ==
    /\ strat = 2
    /\ ipc = "idle"
    /\ iter = 0
    /\ tasks = 2
    /\ \A i \in Batch : tpc[i] = "ok"


\* C12: a trial runner call makes its first `warmup` invocations untimed and
\* every later one timed, never more than warmup + repeats in all; when its
\* Result is in the results list it has made exactly warmup + repeats
\* invocations, exactly `repeats` of them timed.
C12_WarmupThenRepeats ==
    \A s \in 1..Len(Strategies) :
        /\ calls[s] <= warmup + repeats
        /\ timed[s] = (IF calls[s] > warmup THEN calls[s] - warmup ELSE 0)
        /\ Len(results) >= s => (calls[s] = warmup + repeats /\ timed[s] = repeats)

\* the run ended normally after one warmup and two measured trials per strategy
C12_Witness ==
    /\ hpc = "done"
    /\ warmup = 1
    /\ repeats = 2
    /\ Len(results) = Len(Strategies)
    /\ calls[Len(Strategies)] = 3

\* C13 (as claimed): the echo server is up from the start of the run, is
\* stopped once, when the run ends normally or with a failure, and at the
\* moment it is stopped no task of the run is in flight or about to connect.
C13_ServerSpansRun ==
    /\ [](bench = "io" => (server = "up" <=> hpc = "run"))
    /\ [][server' # server =>
            (server = "up" /\ server' = "closed" /\ Queued = {} /\ Running = {})]_vars


IsPrefix(a, b) == Len(a) <= Len(b) /\ a = SubSeq(b, 1, Len(a))

\* C14: on every connection served by the echo handler the bytes written back
\* are a prefix of the bytes read from that connection, which are a prefix of
\* what its client sent; what travels to a client and what it has received is
\* exactly what the handler of its own connection wrote; and a handler that
\* has bytes to read, or a drain to finish, can take its step whatever the
\* handlers of the other connections are waiting for.
C14_EchoPerConnection ==
    \A i \in Slots :
        /\ fault[i] = "none" =>
            /\ IsPrefix(hwr[i], hrd[i])
            /\ IsPrefix(hrd[i], payload)
            /\ LoopRuns => recvd[i] \o s2c[i] = hwr[i]
        /\ (LoopRuns /\ hst[i] = "read" /\ fault[i] = "none" /\ c2s[i] # <<>>)
              => ENABLED HandleRead(i)
        /\ (LoopRuns /\ hst[i] = "drain") => ENABLED HandleDrain(i)

\* the handler of connection 1 waits in reader.read for bytes that were not
\* sent yet, and connection 2 has had its two bytes echoed meanwhile
C14_Witness ==
    /\ tasks = 2
    /\ Len(payload) = 2
    /\ hst[1] = "read"
    /\ tpc[1] = "send"
    /\ c2s[1] = <<>>
    /\ fault[2] = "none"
    /\ hwr[2] = payload
    /\ recvd[2] = payload


\* ---- sizing the pools: runs of one task with an empty payload and a
\* ---- well-behaved peer, for every --concurrency up to MaxPoolConcurrency
InitPool ==
    /\ bench \in Benches
    /\ tasks = 1
    /\ concurrency \in 1..MaxPoolConcurrency
    /\ repeats = 1
    /\ warmup = 0
    /\ payload = <<>>
    /\ inject = "none"
    /\ Entered

\* the steps such a run can take
NextPool ==
    \/ StartTrial
    \/ TrialEnd
    \/ LoopClose
    \/ FutureResult
    \/ Shutdown
    \/ GatherDone
    \/ \E i \in Slots : Dispatch(i)
    \/ \E i \in Slots : Acquire(i)
    \/ \E i \in Slots : Connect(i)
    \/ \E i \in Slots : Send(i)
    \/ \E i \in Slots : Closed(i)
    \/ \E i \in Slots : Work(i)
    \/ \E i \in Slots : CpuOne(i)
    \/ \E i \in Slots : HandleEOF(i)

SpecPool == InitPool /\ [][NextPool]_vars

\* C15 (as claimed): the process pool of either program has exactly
\* min(concurrency, 64) workers, never more than 64.
C15_ProcessPoolCapped ==
    (Strategy = "processes" /\ ipc \in {"wait", "shutdown"})
        => (alive = Min(concurrency, ProcCap) /\ alive <= ProcCap)

\* C16: with a payload of 0 bytes the echo client of every strategy never
\* enters its receive loop and never fails, whatever the peer does; a client
\* that is through has opened its connection (a handler was started for it)
\* and closed it, having sent and received nothing; every trial returns.
C16_EmptyPayload ==
    (bench = "io" /\ payload = <<>>) =>
        /\ \A i \in Batch :
            /\ tpc[i] \notin {"recv", "failed", "closing_err", "cancelled"}
            /\ recvd[i] = <<>> /\ c2s[i] = <<>> /\ s2c[i] = <<>>
            /\ tpc[i] \in {"send"} => conn[i] = "open"
            /\ tpc[i] \in {"closing", "ok"} => (conn[i] = "closed" /\ hst[i] # "none")
        /\ ~exc
        /\ ipc # "raised"
        /\ hpc \notin {"failed"}

\* all three strategies have run with an empty payload, the last one against
\* a peer that never answers
C16_Witness ==
    /\ bench = "io" /\ payload = <<>> /\ tasks = 2
    /\ hpc = "done" /\ Len(results) = Len(Strategies)
    /\ fault[1] = "hang"
    /\ \A i \in Batch : tpc[i] = "ok" /\ conn[i] = "closed"

\* C17: in cpu_bench_asyncio a task runs from admission to completion in one
\* step of the event loop: no reachable state has a compute task in flight
\* (so at most one is), the gate is never found full (all its slots are free
\* whenever a task is still to start, which can then start at once), and the
\* tasks complete one at a time in the order they were created.
C17_ComputeNeverSuspends ==
    (bench = "cpu" /\ ~Blocking /\ ipc # "idle") =>
        /\ Cardinality(Running) <= 1
        /\ Running = {}
        /\ sem = concurrency
        /\ ~Locked(sem)
        /\ \A i \in Batch : (hpc = "run" /\ First(i)) => ENABLED CpuOne(i)
        /\ \A i, j \in Batch : (i < j /\ tpc[j] = "ok") => tpc[i] = "ok"

\* two compute tasks behind a gate of one slot: the first is done, the second
\* has not started
C17_Witness ==
    /\ bench = "cpu" /\ Strategy = "asyncio" /\ tasks = 2 /\ concurrency = 1
    /\ tpc[1] = "ok" /\ tpc[2] = "queued"

\* ---- cpu_work(units), step by step ------------------------------------------
\* acc is a 32-bit value kept as two 16-bit limbs <<high, low>>, so that no
\* intermediate product leaves the range of the integers of the checker
Limb == 65536
Multiplier == 1664525
Increment == 1013904223

AHi == Multiplier \div Limb
ALo == Multiplier % Limb
CHi == Increment \div Limb
CLo == Increment % Limb

\* (acc * 1664525 + 1013904223 + i) & 0xFFFFFFFF
Update(acc, i) ==
    LET hi == acc[1]
        lo == acc[2]
        p == lo * ALo
        low == (p % Limb) + CLo + i
        high == (p \div Limb) + ((lo * AHi) % Limb) + ((hi * ALo) % Limb)
                    + CHi + (low \div Limb)
    IN  <<high % Limb, low % Limb>>

\* a loop that runs its body once more than range(units)
InRangeInclusive(i, n) == i <= n

\* for i in range(units)
InRange(i, n) == i < n

\* cpu_work is called: acc = 0 and the loop starts at i = 0
WorkCall ==
    /\ wpc = "idle"
    /\ \E u \in 0..MaxUnits : wunits' = u
    /\ wi' = 0
    /\ wacc' = <<0, 0>>
    /\ wpc' = "loop"
    /\ UNCHANGED <<cfgvars, harnessvars, invvars, taskvars, netvars>>

\* one iteration of the loop body
WorkIter ==
    /\ wpc = "loop"
    /\ InRange(wi, wunits)
    /\ wacc' = Update(wacc, wi)
    /\ wi' = wi + 1
    /\ UNCHANGED <<cfgvars, harnessvars, invvars, taskvars, netvars, wunits, wpc>>

\* the range is exhausted: return acc
WorkReturn ==
    /\ wpc = "loop"
    /\ ~InRange(wi, wunits)
    /\ wpc' = "done"
    /\ UNCHANGED <<cfgvars, harnessvars, invvars, taskvars, netvars, wunits, wi, wacc>>

InitWork ==
    /\ bench = "cpu"
    /\ tasks = 1
    /\ concurrency = 1
    /\ repeats = 1
    /\ warmup = 0
    /\ payload = <<>>
    /\ inject = "none"
    /\ Entered

NextWork ==
    \/ WorkCall
    \/ WorkIter
    \/ WorkReturn

SpecWork == InitWork /\ [][NextWork]_vars

\* the value after n iterations of the recurrence, from acc = 0 with i = 0..n-1
RECURSIVE Recurrence(_)
Recurrence(n) == IF n = 0 THEN <<0, 0>> ELSE Update(Recurrence(n - 1), n - 1)

\* C18: cpu_work(units) returns after exactly `units` iterations of
\* acc' = (acc * 1664525 + 1013904223 + i) mod 2^32 from acc = 0 with
\* i = 0..units-1; the value is a function of units alone, both of its 16-bit
\* halves stay in 0..2^16-1 (the value in 0..2^32-1) at every step,
\* cpu_work(0) = 0, cpu_work(1) = 1013904223, and a call changes nothing but
\* its own locals.
C18_CpuWork ==
    /\ [](/\ wacc[1] \in 0..(Limb - 1) /\ wacc[2] \in 0..(Limb - 1)
          /\ wi <= wunits
          /\ wpc \in {"loop", "done"} => wacc = Recurrence(wi)
          /\ wpc = "done" =>
                /\ wi = wunits
                /\ wacc = Recurrence(wunits)
                /\ wunits = 0 => wacc = <<0, 0>>
                /\ wunits = 1 => wacc = <<15470, 62303>>
                /\ wunits = 2 => wacc = <<18256, 10547>>
                /\ wunits = 3 => wacc = <<53734, 23800>>)
    /\ [][UNCHANGED <<cfgvars, harnessvars, invvars, taskvars, netvars>>
            /\ (wpc # "idle" => wunits' = wunits)]_vars

\* the longest call followed has returned
C18_Witness == wpc = "done" /\ wunits = MaxUnits /\ wi = MaxUnits /\ wacc # <<0, 0>>

\* C19 (as claimed): in io_bench_asyncio against a server that answers, the
\* free slots of the gate plus the tasks in flight always make up
\* `concurrency`, and every task of the batch is admitted and runs to its own
\* end: none is given up at the gate or on its way, even after another task
\* has failed.
C19_SlotsReleasedAllComplete ==
    (bench = "io" /\ ~Blocking /\ inject # "hang") =>
        /\ ipc # "idle" => sem + Cardinality(Running) = concurrency
        /\ \A i \in Batch : tpc[i] # "cancelled"
        /\ hpc = "exited" => \A i \in Batch : tpc[i] \in {"ok", "failed"}

\* a pool client blocked in recv with nothing to read yet
AwaitsEcho(i) ==
    /\ bench = "io" /\ Blocking /\ ipc \in {"wait", "shutdown"}
    /\ tpc[i] = "recv" /\ s2c[i] = <<>>

\* C20: while a threads/processes client waits for its echo, the event loop
\* is free and the handler of its connection can take its next step (read
\* what was sent, or come back from drain); whatever the peer does, the wait
\* can end.  Under fairness every threads/processes I/O trial that was
\* started comes to its end (returns or raises).
C20_LoopFreeForServer ==
    /\ [](\A i \in Batch :
            AwaitsEcho(i) =>
                /\ LoopRuns
                /\ fault[i] = "none" => (ENABLED HandleRead(i) \/ ENABLED HandleDrain(i))
                /\ \/ ENABLED HandleRead(i) \/ ENABLED HandleDrain(i)
                   \/ ENABLED PeerCorrupt(i) \/ ENABLED PeerClose(i)
                   \/ ENABLED RecvEOF(i) \/ ENABLED Timeout(i))
    /\ (bench = "io" /\ Blocking /\ ipc = "wait") ~> (ipc \in {"returned", "raised"})

\* both clients of a processes trial wait for echoes the handlers have yet to
\* send
C20_Witness ==
    /\ Strategy = "processes" /\ tasks = 2 /\ inject = "none"
    /\ AwaitsEcho(1) /\ AwaitsEcho(2)
    /\ hst[1] = "read" /\ hst[2] = "drain"

====
